---- MODULE Spec2Model ----
(***************************************************************************)
(* State-machine model of adapters/python/ironcurtain_client.py:           *)
(* IronCurtainAgent, the SAP client (registration, queue session, match    *)
(* session, lifecycle loop).  One action per suspension point of the       *)
(* coroutine _main_loop and of the coroutines it awaits; the synchronous   *)
(* code between two awaits is part of the action that runs it.             *)
(***************************************************************************)
EXTENDS Integers, Sequences, FiniteSets, TLC

\* ------------------------------------------------------------------ bounds
\* The arena announces at most this many matches (caps matches_played) and
\* reports at most this many victories and defeats in all (caps wins and
\* losses).
MaxMatches == 2

\* ------------------------------------------------------- python primitives
\* Python's None.
None == [none |-> TRUE]

\* Python's empty dict {}.
EmptyDict == [k \in {} |-> 0]

\* dict.get(key, default)
Get(d, k, dflt) == IF k \in DOMAIN d THEN d[k] ELSE dflt

\* A test `is not None` in place of the truth test of the payload.
TruthyIsNotNone(x) == x # None

\* Truth value, as `if x:` tests it, of an Optional dict or object ...
Truthy(x) == x # None /\ x # EmptyDict

\* ... of a str ("" also stands for an absent Optional[str]) ...
TruthyStr(s) == s # ""

\* ... and of a list.
TruthyList(l) == Len(l) > 0

\* ------------------------------------------------------------- program data
StatusOK == 200
StatusAlreadyQueued == 409
DefaultElo == 1200

\* Outcomes of one HTTP exchange: a response with a status, or an exception
\* raised by the HTTP client (connection refused, reset, ...).
HttpStatuses == {StatusOK, StatusAlreadyQueued, 500}
HttpOutcomes == [kind : {"response"}, status : HttpStatuses] \cup {[kind |-> "exception"]}

\* Bodies of a 200 registration response.
RegisterBodies ==
    { [agent_id |-> "a1", name |-> "Bot", api_key |-> "k1"],
      [name |-> "Bot", api_key |-> "k1"] }

\* Constructor arguments api_key / agent_id ("" stands for an absent one).
ApiKeyArgs == {"", "k0"}
AgentIdArgs == {"", "a0"}

\* __init__: credentials exist at start only if both api_key and agent_id
\* were supplied.
InitCredentials(api_key, agent_id) ==
    IF TruthyStr(api_key) /\ TruthyStr(agent_id)
    THEN [agent_id |-> agent_id, name |-> "Bot", api_key |-> api_key, elo |-> DefaultElo]
    ELSE None

NeedsRegisterAlways(creds) == TRUE

\* _main_loop: `if not self.credentials` decides whether _register is called.
NeedsRegister(creds) == ~Truthy(creds)

\* _register: a non-200 status (or an exception of the HTTP client, or a body
\* without agent_id/name/api_key) raises; otherwise credentials are built
\* from the body, elo defaulting to 1200.
RegisterRaises(resp, body) ==
    \/ resp.kind = "exception"
    \/ resp.status # StatusOK
    \/ ~({"agent_id", "name", "api_key"} \subseteq DOMAIN body)

RegisterCredentials(body) ==
    [agent_id |-> body.agent_id, name |-> body.name, api_key |-> body.api_key,
     elo |-> Get(body, "elo", DefaultElo)]

RegisterNextRetried(resp, body) ==
    IF RegisterRaises(resp, body) THEN "backoff" ELSE "onboard"

\* _main_loop around _register: success goes on to onboarding, a raised error
\* is handled nowhere and ends _main_loop.
RegisterNext(resp, body) ==
    IF RegisterRaises(resp, body) THEN "crashed" ELSE "onboard"

\* _self_onboard: every outcome (200, other status, exception) is swallowed.
OnboardRaises(resp) == FALSE

JoinQueueRaisesOn409(resp) ==
    IF resp.kind = "exception" THEN TRUE ELSE resp.status # StatusOK

\* _join_queue: 409 returns early, any other non-200 raises RuntimeError, an
\* exception of the HTTP client propagates, 200 returns.
JoinQueueRaises(resp) ==
    IF resp.kind = "exception" THEN TRUE
    ELSE IF resp.status = StatusAlreadyQueued THEN FALSE
    ELSE resp.status # StatusOK

\* A lifecycle loop that ignores the running flag (`while True:`).
MainLoopCondIgnored(flag) == TRUE

\* _main_loop, line 330: `while self._running:`.
MainLoopCond(flag) == flag

\* A queue session that ignores the running flag (`while True:`).
QueueLoopCondIgnored(flag) == TRUE

\* _wait_for_match, line 437: `while self._running:`.
QueueLoopCond(flag) == flag

\* A queue session that returns without closing its connection.
QueueExitLeaks(conn) == conn

\* _wait_for_match, line 429: leaving the `async with` block (by a return, or
\* by an exception) closes the queue connection.
QueueExit(conn) == None

\* A game loop that ignores the running flag (`while True:`).
MatchLoopCondIgnored(flag) == TRUE

\* _play_match, line 503: `while self._running:`.
MatchLoopCond(flag) == flag

\* _main_loop without the `except Exception` around the cycle: the error of
\* _join_queue would leave the lifecycle loop.
JoinNextUncaught(resp) == IF JoinQueueRaises(resp) THEN "crashed" ELSE "q_connect"

\* _main_loop around _join_queue: a return goes on to _wait_for_match, a raised
\* error is caught by `except Exception` and followed by sleep(5).
JoinNext(resp) == IF JoinQueueRaises(resp) THEN "backoff" ELSE "q_connect"

\* ------------------------------------------------------------ queue session
\* Pairing payloads the arena can embed in a match_found event.
MatchPayloads ==
    { [id |-> "m1", map |-> "Tundra",
       players |-> << [agent_id |-> "a1", faction |-> "soviet"],
                      [agent_id |-> "a2", agent_name |-> "Foe"] >>] }

\* Messages the arena can send on the queue channel.
QueueMsgs ==
    { [event |-> "match_found", data |-> d] : d \in MatchPayloads \cup {EmptyDict} }
    \cup { [event |-> "match_found"], [event |-> "queue_timeout"],
           [type |-> "identified"], [event |-> "position"] }

\* Outcomes of one `wait_for(ws.recv(), timeout=30)` followed by json.loads:
\* a decoded message, the timeout, or an exception (connection closed,
\* transport error, undecodable frame).
RecvOutcomes(msgs) ==
    [kind : {"message"}, msg : msgs] \cup {[kind |-> "timeout"], [kind |-> "error"]}

\* Outcomes of websockets.connect and of ws.send.
IOOutcomes == {"ok", "error"}

\* The dispatch of _wait_for_match on one decoded message: what the queue
\* session does ("return" or keep waiting) and the value it returns.
QueueDispatch(msg) ==
    IF Get(msg, "event", "") = "match_found"
    THEN [do |-> "return", value |-> Get(msg, "data", EmptyDict), how |-> "match_found"]
    ELSE IF Get(msg, "event", "") = "queue_timeout"
    THEN [do |-> "return", value |-> None, how |-> "queue_timeout"]
    ELSE [do |-> "wait", value |-> None, how |-> "none"]

AfterQueueAlwaysPlay(value) == "m_start"

\* _main_loop after _wait_for_match returned: `if not match_data: continue`,
\* else _play_match is entered.
AfterQueue(value) == IF ~Truthy(value) THEN "loop" ELSE "m_start"

\* ------------------------------------------------------------ match session
\* _play_match, lines 471-477: the last player with our agent_id, or None.
RECURSIVE OurPlayer(_, _)
OurPlayer(players, agent_id) ==
    IF players = <<>> THEN None
    ELSE LET p == players[Len(players)]
         IN IF Get(p, "agent_id", "") = agent_id THEN p
            ELSE OurPlayer(SubSeq(players, 1, Len(players) - 1), agent_id)

\* ... and the agent_name of the last player that is not us.
RECURSIVE OpponentName(_, _)
OpponentName(players, agent_id) ==
    IF players = <<>> THEN "Unknown"
    ELSE LET p == players[Len(players)]
         IN IF Get(p, "agent_id", "") # agent_id THEN Get(p, "agent_name", "Unknown")
            ELSE OpponentName(SubSeq(players, 1, Len(players) - 1), agent_id)

\* _play_match, lines 466-485: the MatchInfo built from the pairing payload.
MatchInfoOf(data, agent_id) ==
    LET players == Get(data, "players", <<>>)
        our == OurPlayer(players, agent_id)
    IN [match_id |-> Get(data, "id", "unknown"),
        map_name |-> Get(data, "map", "Unknown"),
        faction  |-> IF our # None THEN Get(our, "faction", "random") ELSE "random",
        opponent |-> OpponentName(players, agent_id),
        settings |-> Get(data, "settings", EmptyDict)]

\* State payloads and messages the arena can send on the match channel.
StatePayloads == { [tick |-> 1, own |-> [units |-> <<"u1">>]] }

MatchMsgs ==
    { [type |-> "state_update", state |-> st] : st \in StatePayloads }
    \cup { [type |-> "state_response"] }
    \cup { [type |-> "game_end", result |-> r] : r \in {"victory", "defeat", "draw"} }
    \cup { [type |-> "order_violations", violations |-> <<"v1", "v2">>],
           [type |-> "order_violations"],
           [type |-> "chat", from |-> "Foe", message |-> "gg"],
           [type |-> "connected"], [type |-> "game_start"],
           [type |-> "ping"], [event |-> "noise"] }

\* What the strategy callback on_game_state can do: return a list of orders
\* (possibly empty), or raise; an exception of class asyncio.TimeoutError is
\* told apart because `except asyncio.TimeoutError` of _play_match matches it.
CallbackOutcomes ==
    { [kind |-> "return", orders |-> <<>>],
      [kind |-> "return", orders |-> <<[type |-> "deploy"]>>],
      [kind |-> "raise", exc |-> "Exception"],
      [kind |-> "raise", exc |-> "TimeoutError"] }

\* What a hook (on_match_start, on_match_end, on_violation, on_chat) can do:
\* return, or raise.
HookOutcomes == {"none", "Exception", "TimeoutError"}

\* GameState.from_dict (the fields the model follows: tick and own units).
FromDict(data) ==
    [tick |-> Get(data, "tick", 0),
     own_units |-> Get(Get(data, "own", EmptyDict), "units", <<>>)]

\* An identify message that does not carry the agent's own id.
IdentifyMsgAnonymous(agent_id) == [type |-> "identify", agent_id |-> "anonymous"]

\* The messages the client sends.
IdentifyMsg(agent_id) == [type |-> "identify", agent_id |-> agent_id]
GetStateMsg(agent_id) == [type |-> "get_state", agent_id |-> agent_id]
OrdersMsg(agent_id, orders) == [type |-> "orders", agent_id |-> agent_id, orders |-> orders]

OrdersToSendTwice(agent_id, orders) ==
    IF TruthyList(orders)
    THEN <<OrdersMsg(agent_id, orders), OrdersMsg(agent_id, orders)>>
    ELSE <<>>

\* _handle_match_message, lines 541-546: what is sent for the orders the
\* callback returned.
OrdersToSend(agent_id, orders) ==
    IF TruthyList(orders) THEN <<OrdersMsg(agent_id, orders)>> ELSE <<>>

\* _handle_match_message, lines 552-555: the counters after a game_end.
WinsAfter(result, w) == IF result = "victory" THEN w + 1 ELSE w
LossesAfter(result, l) ==
    IF result = "victory" THEN l ELSE IF result = "defeat" THEN l + 1 ELSE l

\* A handler that takes only the pushed state_update for a state message.
BranchUpdateOnly(msg_type) ==
    IF msg_type = "state_update" THEN "state"
    ELSE IF msg_type = "game_end" THEN "game_end"
    ELSE IF msg_type = "order_violations" THEN "order_violations"
    ELSE IF msg_type = "chat" THEN "chat"
    ELSE IF msg_type \in {"connected", "game_start"} THEN "event"
    ELSE "ignored"

BranchElseState(msg_type) ==
    IF msg_type = "game_end" THEN "game_end"
    ELSE IF msg_type = "order_violations" THEN "order_violations"
    ELSE IF msg_type = "chat" THEN "chat"
    ELSE IF msg_type \in {"connected", "game_start"} THEN "event"
    ELSE "state"

\* _handle_match_message, the branch taken for a message type.
Branch(msg_type) ==
    IF msg_type \in {"state_update", "state_response"} THEN "state"
    ELSE IF msg_type = "game_end" THEN "game_end"
    ELSE IF msg_type = "order_violations" THEN "order_violations"
    ELSE IF msg_type = "chat" THEN "chat"
    ELSE IF msg_type \in {"connected", "game_start"} THEN "event"
    ELSE "ignored"

\* _handle_match_message on one decoded message, up to its first await or its
\* end: the fields it assigns, the callbacks it invokes, the messages it
\* goes on to send, and the exception it raises ("none" if it returns).  cb
\* and hk are what the callback and the hook do when invoked.
HandleMatchMessage(self, msg, cb, hk) ==
    LET branch == Branch(Get(msg, "type", ""))
        keep == [game_state |-> self.game_state, match_result |-> self.match_result,
                 wins |-> self.wins, losses |-> self.losses,
                 calls |-> <<>>, send |-> <<>>, exc |-> "none"]
    IN CASE branch = "state" ->
              LET gs == FromDict(Get(msg, "state", EmptyDict))
              IN [keep EXCEPT !.game_state = gs,
                              !.calls = <<[hook |-> "on_game_state", arg |-> gs]>>,
                              !.send = IF cb.kind = "return"
                                       THEN OrdersToSend(self.agent_id, cb.orders)
                                       ELSE <<>>,
                              !.exc = IF cb.kind = "raise" THEN cb.exc ELSE "none"]
         [] branch = "game_end" ->
              LET result == Get(msg, "result", "unknown")
              IN [keep EXCEPT !.match_result = msg,
                              !.wins = WinsAfter(result, self.wins),
                              !.losses = LossesAfter(result, self.losses),
                              !.calls = <<[hook |-> "on_match_end", arg |-> msg]>>,
                              !.exc = hk]
         [] branch = "order_violations" ->
              [keep EXCEPT !.calls = <<[hook |-> "on_violation",
                                        arg |-> Get(msg, "violations", <<>>)]>>,
                           !.exc = hk]
         [] branch = "chat" ->
              [keep EXCEPT !.calls = <<[hook |-> "on_chat",
                                        arg |-> <<Get(msg, "from", "?"),
                                                  Get(msg, "message", "")>>]>>,
                           !.exc = hk]
         [] OTHER -> keep

\* The batch on_game_state returned to _handle_match_message, line 539 (the
\* empty batch when it was not invoked or raised).
Returned(msg, cb) ==
    IF Branch(Get(msg, "type", "")) = "state" /\ cb.kind = "return"
    THEN cb.orders ELSE <<>>

\* _play_match, lines 508-511, once _handle_match_message has returned:
\* `break` on game_end, else the next iteration.
AfterHandled(msg) == IF Get(msg, "type", "") = "game_end" THEN "end" ELSE "m_loop"

\* _play_match, lines 504-523, after the handler ran up to its first await
\* or its end: an asyncio.TimeoutError it raised is taken for a receive
\* timeout (get_state is sent), any other exception ends the session.
AfterHandle(msg, eff) ==
    IF eff.exc = "TimeoutError" THEN "m_probe"
    ELSE IF eff.exc # "none" THEN "end"
    ELSE IF eff.send # <<>> THEN "m_send"
    ELSE AfterHandled(msg)

\* _play_match, lines 513-518: what a receive timeout leads to.
AfterTimeout == "m_probe"

\* _main_loop breaking out of the loop after every match, whatever auto_queue.
AfterMatchAlwaysStop(auto) == "stopped"

\* _main_loop without the `break` of single-match operation.
AfterMatchAlwaysRepeat(auto) == "cooldown"

\* _main_loop, lines 343-353, after _play_match returned.
AfterMatch(auto) == IF ~auto THEN "stopped" ELSE "cooldown"

\* ------------------------------------------------------------------- state
VARIABLES
    pc,              \* position of the coroutine _main_loop (and callees)
    running,         \* self._running
    auto_queue,      \* self.auto_queue
    credentials,     \* self.credentials
    match_info,      \* self.match_info
    game_state,      \* self.game_state
    match_result,    \* self.match_result
    matches_played,  \* self.matches_played
    wins,            \* self.wins
    losses,          \* self.losses
    ws,              \* self._ws: the open match connection or None
    qws,             \* the queue connection of _wait_for_match (`ws` there)
    match_data,      \* local match_data of _main_loop
    pending,         \* messages _handle_match_message still has to send
    \* history (observations of the run, never read by the program)
    registrations,   \* number of calls of _register
    regFailed,       \* a call of _register raised
    lastOp,          \* the last protocol operation started
    lastJoin,        \* the response to the queue-join request of this cycle
    qresult,         \* how the queue session of this cycle ended
    last,            \* the last receive on the match channel in this cycle,
                     \* with what the handler raised and the callback returned
    sent,            \* messages sent on the match channel since that receive
    calls,           \* callbacks and hooks invoked since that receive
    raised,          \* where the last step of the coroutine raised, if it did
    wire             \* what was sent in this cycle: the messages of the queue
                     \* session, the first message of the match session and
                     \* the number of its identify messages

vars == <<pc, running, auto_queue, credentials, match_info, game_state,
          match_result, matches_played, wins, losses, ws, qws, match_data,
          pending, registrations, regFailed, lastOp, lastJoin, qresult,
          last, sent, calls, raised, wire>>

agent == <<credentials, match_info, game_state, match_result, matches_played,
           wins, losses>>
conns == <<ws, qws>>
regHist == <<registrations, regFailed>>
matchHist == <<last, sent, calls>>

\* An open connection (the object websockets.connect yields).
Open == [open |-> TRUE]

NoRecv == [kind |-> "none", msg |-> None, exc |-> "none", ret |-> <<>>]

Op(name) == lastOp' = name

NoOp == UNCHANGED lastOp

Raise(origin) == raised' = origin

NoRaise == raised' = "none"

NoWire == [queue |-> <<>>, first |-> None, idents |-> 0]

\* msg is sent on the queue channel.
QueueWire(msg) == wire' = [wire EXCEPT !.queue = Append(@, msg)]

\* msg is sent on the match channel.
MatchWire(msg) ==
    wire' = [wire EXCEPT !.first = IF @ = None THEN msg ELSE @,
                         !.idents = IF msg.type = "identify" THEN @ + 1 ELSE @]

Init ==
    /\ pc = "start"
    /\ running = TRUE
    /\ auto_queue \in BOOLEAN
    /\ \E k \in ApiKeyArgs, a \in AgentIdArgs : credentials = InitCredentials(k, a)
    /\ match_info = None
    /\ game_state = None
    /\ match_result = None
    /\ matches_played = 0
    /\ wins = 0
    /\ losses = 0
    /\ ws = None
    /\ qws = None
    /\ match_data = None
    /\ pending = <<>>
    /\ registrations = 0
    /\ regFailed = FALSE
    /\ lastOp = "none"
    /\ lastJoin = None
    /\ qresult = "none"
    /\ last = NoRecv
    /\ sent = <<>>
    /\ calls = <<>>
    /\ raised = "none"
    /\ wire = NoWire

\* -------------------------------------------------------------- _main_loop
\* Entry of _main_loop: register if there are no credentials, else go on to
\* onboarding.  The step ends at the first await (the HTTP request issued).
Start ==
    /\ pc = "start"
    /\ IF NeedsRegister(credentials)
       THEN /\ pc' = "register"
            /\ registrations' = registrations + 1
            /\ Op("register")
       ELSE /\ pc' = "onboard"
            /\ registrations' = registrations
            /\ Op("onboard")
    /\ NoRaise
    /\ UNCHANGED wire
    /\ UNCHANGED <<running, auto_queue, agent, conns, match_data, pending,
                   regFailed, lastJoin, qresult, matchHist>>

\* The registration response arrives.  A failure raises out of _main_loop
\* (there is no handler around the call): the run ends with the error.
RegisterResp ==
    /\ pc = "register"
    /\ \E resp \in HttpOutcomes, body \in RegisterBodies :
         /\ pc' = RegisterNext(resp, body)
         /\ regFailed' = RegisterRaises(resp, body)
         /\ IF RegisterRaises(resp, body) THEN Raise("register") ELSE NoRaise
         /\ IF RegisterRaises(resp, body)
            THEN /\ credentials' = credentials
                 /\ IF pc' = "crashed" THEN NoOp ELSE Op(pc')
            ELSE /\ credentials' = RegisterCredentials(body)
                 /\ Op("onboard")
    /\ UNCHANGED wire
    /\ UNCHANGED <<running, auto_queue, match_info, game_state, match_result,
                   matches_played, wins, losses, conns, match_data, pending,
                   registrations, lastJoin, qresult, matchHist>>

\* The onboarding exchange ends, whatever its outcome.
OnboardResp ==
    /\ pc = "onboard"
    /\ \E resp \in HttpOutcomes :
         pc' = IF OnboardRaises(resp) THEN "crashed" ELSE "loop"
    /\ NoOp
    /\ NoRaise
    /\ UNCHANGED wire
    /\ UNCHANGED <<running, auto_queue, agent, conns, match_data, pending,
                   regHist, lastJoin, qresult, matchHist>>

\* `while self._running:` at the head of the lifecycle loop; when the flag is
\* set the queue-join request is issued.
LoopCheck ==
    /\ pc = "loop"
    /\ IF MainLoopCond(running)
       THEN /\ pc' = "join"
            /\ Op("join")
            /\ qresult' = "none"
            /\ lastJoin' = None
            /\ last' = NoRecv
            /\ sent' = <<>>
            /\ calls' = <<>>
            /\ wire' = NoWire
       ELSE /\ pc' = "stopped"
            /\ NoOp
            /\ UNCHANGED <<qresult, lastJoin, matchHist, wire>>
    /\ NoRaise
    /\ UNCHANGED <<running, auto_queue, agent, conns, match_data, pending,
                   regHist>>

\* The queue-join response arrives: _join_queue returns and _wait_for_match
\* starts connecting, or the exception reaches the handler of the loop.
JoinResp ==
    /\ pc = "join"
    /\ \E resp \in HttpOutcomes :
         /\ pc' = JoinNext(resp)
         /\ lastJoin' = resp
         /\ IF JoinQueueRaises(resp) THEN Raise("join") ELSE NoRaise
         /\ IF pc' = "q_connect" THEN Op("q_connect") ELSE NoOp
    /\ UNCHANGED wire
    /\ UNCHANGED <<running, auto_queue, agent, conns, match_data, pending,
                   regHist, qresult, matchHist>>

\* asyncio.sleep(2) after a match ends.
Cooldown ==
    /\ pc = "cooldown"
    /\ pc' = "loop"
    /\ NoOp
    /\ NoRaise
    /\ UNCHANGED wire
    /\ UNCHANGED <<running, auto_queue, agent, conns, match_data, pending,
                   regHist, lastJoin, qresult, matchHist>>

\* asyncio.sleep(5) after an exception escaped a cycle.
Backoff ==
    /\ pc = "backoff"
    /\ pc' = "loop"
    /\ NoOp
    /\ NoRaise
    /\ UNCHANGED wire
    /\ UNCHANGED <<running, auto_queue, agent, conns, match_data, pending,
                   regHist, lastJoin, qresult, matchHist>>

\* The signal handler _shutdown: runs between two steps of the coroutine.
Shutdown ==
    /\ pc \notin {"stopped", "crashed"}
    /\ running
    /\ running' = FALSE
    /\ NoOp
    /\ UNCHANGED raised
    /\ UNCHANGED wire
    /\ UNCHANGED <<pc, auto_queue, agent, conns, match_data, pending,
                   regHist, lastJoin, qresult, matchHist>>

\* --------------------------------------------------------- _wait_for_match
\* websockets.connect(uri) of the queue channel.
QueueConnect ==
    /\ pc = "q_connect"
    /\ \E io \in IOOutcomes :
         IF io = "ok"
         THEN /\ qws' = Open
              /\ pc' = "q_identify"
              /\ Op("q_identify")
              /\ qresult' = qresult
              /\ wire' = [wire EXCEPT !.queue = <<>>]
              /\ NoRaise
         ELSE /\ qws' = QueueExit(qws)
              /\ pc' = "q_errsleep"
              /\ NoOp
              /\ qresult' = "error"
              /\ Raise("queue")
              /\ UNCHANGED wire
    /\ UNCHANGED <<running, auto_queue, agent, ws, match_data, pending,
                   regHist, lastJoin, matchHist>>

\* ws.send(identify) on the queue channel.
QueueIdentify ==
    /\ pc = "q_identify"
    /\ \E io \in IOOutcomes :
         IF io = "ok"
         THEN /\ pc' = "q_loop"
              /\ UNCHANGED <<qws, qresult>>
              /\ QueueWire(IdentifyMsg(credentials.agent_id))
              /\ NoRaise
         ELSE /\ qws' = QueueExit(qws)
              /\ pc' = "q_errsleep"
              /\ qresult' = "error"
              /\ Raise("queue")
              /\ UNCHANGED wire
    /\ NoOp
    /\ UNCHANGED <<running, auto_queue, agent, ws, match_data, pending,
                   regHist, lastJoin, matchHist>>

\* `while self._running:` of the queue session; leaving the loop closes the
\* connection and returns None, and _main_loop continues with its next
\* iteration.
QueueLoop ==
    /\ pc = "q_loop"
    /\ IF QueueLoopCond(running)
       THEN /\ pc' = "q_recv"
            /\ Op("q_recv")
            /\ UNCHANGED <<qws, match_data, qresult>>
       ELSE /\ qws' = QueueExit(qws)
            /\ match_data' = None
            /\ pc' = AfterQueue(None)
            /\ qresult' = "stopped"
            /\ NoOp
    /\ NoRaise
    /\ UNCHANGED wire
    /\ UNCHANGED <<running, auto_queue, agent, ws, pending, regHist, lastJoin,
                   matchHist>>

\* One receive on the queue channel and the dispatch of what it delivers.
\* The arena announces a match only while fewer than MaxMatches were played.
QueueRecv ==
    /\ pc = "q_recv"
    /\ \E out \in RecvOutcomes(QueueMsgs) :
         CASE out.kind = "timeout" ->
                /\ pc' = "q_loop"
                /\ NoRaise
                /\ UNCHANGED <<qws, match_data, qresult>>
           [] out.kind = "error" ->
                /\ qws' = QueueExit(qws)
                /\ pc' = "q_errsleep"
                /\ qresult' = "error"
                /\ Raise("queue")
                /\ UNCHANGED match_data
           [] out.kind = "message" ->
                LET d == QueueDispatch(out.msg)
                IN /\ Truthy(d.value) => matches_played < MaxMatches
                   /\ NoRaise
                   /\ IF d.do = "return"
                      THEN /\ qws' = QueueExit(qws)
                           /\ match_data' = d.value
                           /\ pc' = AfterQueue(d.value)
                           /\ qresult' = d.how
                      ELSE /\ pc' = "q_loop"
                           /\ UNCHANGED <<qws, match_data, qresult>>
    /\ NoOp
    /\ UNCHANGED wire
    /\ UNCHANGED <<running, auto_queue, agent, ws, pending, regHist, lastJoin,
                   matchHist>>

\* asyncio.sleep(3) of the exception handler of _wait_for_match, which then
\* returns None.
QueueErrSleep ==
    /\ pc = "q_errsleep"
    /\ match_data' = None
    /\ pc' = AfterQueue(None)
    /\ NoOp
    /\ NoRaise
    /\ UNCHANGED wire
    /\ UNCHANGED <<running, auto_queue, agent, conns, pending, regHist,
                   lastJoin, qresult, matchHist>>

\* -------------------------------------------------------------- _play_match
\* The end of _play_match (normal, or through one of its handlers; `finally`
\* clears self._ws) and what _main_loop does when it returned.
EndMatch ==
    /\ ws' = None
    /\ pending' = <<>>
    /\ matches_played' = matches_played + 1
    /\ pc' = AfterMatch(auto_queue)

\* Entry of _play_match: MatchInfo is built and on_match_start invoked; if
\* the hook raises, the exception leaves _play_match (it is outside its try)
\* and reaches the handler of the lifecycle loop.
MatchStart ==
    /\ pc = "m_start"
    /\ match_info' = MatchInfoOf(match_data, credentials.agent_id)
    /\ last' = NoRecv
    /\ sent' = <<>>
    /\ calls' = <<[hook |-> "on_match_start", arg |-> match_info']>>
    /\ \E hk \in HookOutcomes :
         IF hk = "none"
         THEN /\ pc' = "m_connect"
              /\ Op("m_connect")
              /\ NoRaise
         ELSE /\ pc' = "backoff"
              /\ NoOp
              /\ Raise("on_match_start")
    /\ UNCHANGED wire
    /\ UNCHANGED <<running, auto_queue, credentials, game_state, match_result,
                   matches_played, wins, losses, conns, match_data, pending,
                   regHist, lastJoin, qresult>>

\* websockets.connect(uri) of the match channel.
MatchConnect ==
    /\ pc = "m_connect"
    /\ \E io \in IOOutcomes :
         IF io = "ok"
         THEN /\ ws' = Open
              /\ pc' = "m_identify"
              /\ Op("m_identify")
              /\ wire' = [wire EXCEPT !.first = None, !.idents = 0]
              /\ NoRaise
              /\ UNCHANGED <<pending, matches_played>>
         ELSE /\ EndMatch
              /\ Raise("match")
              /\ UNCHANGED wire
              /\ NoOp
    /\ UNCHANGED <<running, auto_queue, credentials, match_info, game_state,
                   match_result, wins, losses, qws, match_data, regHist,
                   lastJoin, qresult, matchHist>>

\* ws.send(identify) on the match channel.
MatchIdentify ==
    /\ pc = "m_identify"
    /\ \E io \in IOOutcomes :
         IF io = "ok"
         THEN /\ sent' = Append(sent, IdentifyMsg(credentials.agent_id))
              /\ MatchWire(IdentifyMsg(credentials.agent_id))
              /\ pc' = "m_loop"
              /\ NoRaise
              /\ UNCHANGED <<ws, pending, matches_played>>
         ELSE /\ EndMatch
              /\ Raise("match")
              /\ UNCHANGED wire
              /\ UNCHANGED sent
    /\ NoOp
    /\ UNCHANGED <<running, auto_queue, credentials, match_info, game_state,
                   match_result, wins, losses, qws, match_data, regHist,
                   lastJoin, qresult, last, calls>>

\* `while self._running:` of the game loop.
MatchLoop ==
    /\ pc = "m_loop"
    /\ IF MatchLoopCond(running)
       THEN /\ pc' = "m_recv"
            /\ Op("m_recv")
            /\ UNCHANGED <<ws, pending, matches_played>>
       ELSE /\ EndMatch
            /\ NoOp
    /\ NoRaise
    /\ UNCHANGED wire
    /\ UNCHANGED <<running, auto_queue, credentials, match_info, game_state,
                   match_result, wins, losses, qws, match_data, regHist,
                   lastJoin, qresult, matchHist>>

\* The fields of self that _handle_match_message reads.
Self == [agent_id |-> credentials.agent_id, game_state |-> game_state,
         match_result |-> match_result, wins |-> wins, losses |-> losses]

\* What the callback and the hook can do for one receive: all their outcomes
\* where _handle_match_message invokes them, one (unused) value elsewhere.
CallbackChoices(out) ==
    IF out.kind = "message" /\ Branch(Get(out.msg, "type", "")) = "state"
    THEN CallbackOutcomes ELSE {[kind |-> "return", orders |-> <<>>]}

HookChoices(out) ==
    IF /\ out.kind = "message"
       /\ Branch(Get(out.msg, "type", "")) \in {"game_end", "order_violations", "chat"}
    THEN HookOutcomes ELSE {"none"}

\* One receive on the match channel, and the handling of what it delivers up
\* to the next await.  The arena reports at most MaxMatches victories and
\* defeats in all.
MatchRecv ==
    /\ pc = "m_recv"
    /\ \E out \in RecvOutcomes(MatchMsgs) :
       \E cb \in CallbackChoices(out), hk \in HookChoices(out) :
         /\ sent' = <<>>
         /\ CASE out.kind = "timeout" ->
                   /\ last' = [NoRecv EXCEPT !.kind = "timeout"]
                   /\ calls' = <<>>
                   /\ pc' = AfterTimeout
                   /\ NoRaise
                   /\ UNCHANGED <<game_state, match_result, wins, losses, ws,
                                  pending, matches_played>>
              [] out.kind = "error" ->
                   /\ last' = [NoRecv EXCEPT !.kind = "error"]
                   /\ calls' = <<>>
                   /\ EndMatch
                   /\ Raise("match")
                   /\ UNCHANGED <<game_state, match_result, wins, losses>>
              [] out.kind = "message" ->
                   LET eff == HandleMatchMessage(Self, out.msg, cb, hk)
                       nxt == AfterHandle(out.msg, eff)
                   IN /\ eff.wins + eff.losses <= MaxMatches
                      /\ last' = [kind |-> "message", msg |-> out.msg,
                                  exc |-> eff.exc, ret |-> Returned(out.msg, cb)]
                      /\ calls' = eff.calls
                      /\ IF eff.exc = "none" THEN NoRaise ELSE Raise("handler")
                      /\ game_state' = eff.game_state
                      /\ match_result' = eff.match_result
                      /\ wins' = eff.wins
                      /\ losses' = eff.losses
                      /\ IF nxt = "end"
                         THEN EndMatch
                         ELSE /\ pc' = nxt
                              /\ pending' = IF nxt = "m_send" THEN eff.send ELSE <<>>
                              /\ UNCHANGED <<ws, matches_played>>
    /\ NoOp
    /\ UNCHANGED wire
    /\ UNCHANGED <<running, auto_queue, credentials, match_info, qws,
                   match_data, regHist, lastJoin, qresult>>

\* ws.send of the next message the handler has to send (the orders).
MatchSend ==
    /\ pc = "m_send"
    /\ \E io \in IOOutcomes :
         IF io = "ok"
         THEN /\ sent' = Append(sent, Head(pending))
              /\ MatchWire(Head(pending))
              /\ NoRaise
              /\ IF Tail(pending) # <<>>
                 THEN /\ pending' = Tail(pending)
                      /\ pc' = "m_send"
                      /\ UNCHANGED <<ws, matches_played>>
                 ELSE IF AfterHandled(last.msg) = "end"
                 THEN EndMatch
                 ELSE /\ pending' = <<>>
                      /\ pc' = AfterHandled(last.msg)
                      /\ UNCHANGED <<ws, matches_played>>
         ELSE /\ EndMatch
              /\ Raise("match")
              /\ UNCHANGED wire
              /\ UNCHANGED sent
    /\ NoOp
    /\ UNCHANGED <<running, auto_queue, credentials, match_info, game_state,
                   match_result, wins, losses, qws, match_data, regHist,
                   lastJoin, qresult, last, calls>>

\* ws.send(get_state) of the timeout handler of the game loop.
MatchProbe ==
    /\ pc = "m_probe"
    /\ \E io \in IOOutcomes :
         IF io = "ok"
         THEN /\ sent' = Append(sent, GetStateMsg(credentials.agent_id))
              /\ MatchWire(GetStateMsg(credentials.agent_id))
              /\ pc' = "m_loop"
              /\ NoRaise
              /\ UNCHANGED <<ws, pending, matches_played>>
         ELSE /\ EndMatch
              /\ Raise("match")
              /\ UNCHANGED wire
              /\ UNCHANGED sent
    /\ NoOp
    /\ UNCHANGED <<running, auto_queue, credentials, match_info, game_state,
                   match_result, wins, losses, qws, match_data, regHist,
                   lastJoin, qresult, last, calls>>

\* ------------------------------------------------------------ specification
Next ==
    \/ Start
    \/ RegisterResp
    \/ OnboardResp
    \/ LoopCheck
    \/ JoinResp
    \/ QueueConnect
    \/ QueueIdentify
    \/ QueueLoop
    \/ QueueRecv
    \/ QueueErrSleep
    \/ MatchStart
    \/ MatchConnect
    \/ MatchIdentify
    \/ MatchLoop
    \/ MatchRecv
    \/ MatchSend
    \/ MatchProbe
    \/ Cooldown
    \/ Backoff
    \/ Shutdown

Spec == Init /\ [][Next]_vars

\* The steps of the coroutine _main_loop (every action but the signal
\* handler).
Coroutine ==
    \/ Start
    \/ RegisterResp
    \/ OnboardResp
    \/ LoopCheck
    \/ JoinResp
    \/ QueueConnect
    \/ QueueIdentify
    \/ QueueLoop
    \/ QueueRecv
    \/ QueueErrSleep
    \/ MatchStart
    \/ MatchConnect
    \/ MatchIdentify
    \/ MatchLoop
    \/ MatchRecv
    \/ MatchSend
    \/ MatchProbe
    \/ Cooldown
    \/ Backoff

\* run_until_complete drives the coroutine until it ends: every await of it
\* completes (a request is answered or fails, a receive delivers a message,
\* fails or times out after 30 s, a sleep ends), so the coroutine always takes
\* its next step.  Nothing is assumed about the signal handler.
FairSpec == Spec /\ WF_vars(Coroutine)

\* ------------------------------------------------------------------ claims
\* The match session is Playing: inside the game loop of _play_match.
Playing == pc \in {"m_loop", "m_recv", "m_send", "m_probe"}

\* The number of messages of one type in a sequence of sent messages.
CountType(msgs, t) == Cardinality({i \in DOMAIN msgs : msgs[i].type = t})

\* This step is a receive on the match channel (message, timeout or error).
RecvStep == pc = "m_recv" /\ pc' # "m_recv"

\* This step is the receive of a message whose type is one of ts.
RecvOfType(ts) ==
    /\ RecvStep
    /\ last'.kind = "message"
    /\ Get(last'.msg, "type", "") \in ts

\* C1: between two consecutive receives on the match channel (and before
\* the first one) at most one 'orders' message is sent, whatever messages
\* and timeouts arrive.
C1_AtMostOneOrdersPerReceive == CountType(sent, "orders") <= 1

\* C1 witness: a snapshot was received and its one order batch sent.
C1_Witness ==
    /\ pc = "m_loop"
    /\ last.kind = "message"
    /\ CountType(sent, "orders") = 1

\* C2: while Playing, a receive timeout is followed by exactly one get_state
\* (tagged with agent_id) before the next receive is attempted, the timeout
\* leaves the session Playing, and get_state is never sent unless the last
\* receive timed out.
C2_ProbeExactlyOnTimeout ==
    /\ [][ RecvStep /\ last'.kind = "timeout" => Playing' /\ ws' = ws ]_vars
    /\ [](CountType(sent, "get_state") <= 1)
    /\ [](last.kind = "timeout" /\ pc = "m_recv" =>
            sent = <<GetStateMsg(credentials.agent_id)>>)
    /\ [](CountType(sent, "get_state") > 0 => last.kind = "timeout")

\* C3: when on_game_state raises on a snapshot, no 'orders' message is sent
\* for it and the session is still Playing, its connection open, ready for
\* the next receive.
C3_CallbackErrorKeepsPlaying ==
    [][ RecvOfType({"state_update", "state_response"}) /\ last'.exc # "none"
        => /\ pc' = "m_loop"
           /\ ws' = ws
           /\ sent' = <<>>
           /\ pending' = <<>>
           /\ matches_played' = matches_played ]_vars

\* C4: after a queue_timeout event the queue session has ended with no
\* payload and its connection closed, no match session is entered and no
\* other protocol operation is performed: the controller is at the head of
\* the lifecycle loop, and the next protocol operation, the one it performs
\* there while the running flag is set, is a queue-join request.
C4_QueueTimeoutRejoins ==
    /\ [](qresult = "queue_timeout" =>
            /\ match_data = None
            /\ qws = None /\ ws = None
            /\ pc \in {"loop", "stopped"}
            /\ lastOp = "q_recv")
    /\ [][ qresult = "queue_timeout" /\ lastOp' # lastOp => lastOp' = "join" ]_vars
    /\ [][ qresult = "queue_timeout" /\ pc = "loop" /\ running /\ pc' # pc
           => pc' = "join" ]_vars

\* C4 witness: a queue_timeout was received and the controller is back at
\* the head of the lifecycle loop.
C4_Witness == qresult = "queue_timeout" /\ pc = "loop" /\ running

\* C5: a game_end received while Playing ends the match session (connection
\* closed, no further receive), invokes on_match_end exactly once with the
\* message, and adds exactly 1 to wins for 'victory', exactly 1 to losses for
\* 'defeat', nothing otherwise.
C5_GameEndEndsSession ==
    [][ RecvOfType({"game_end"})
        => /\ ~Playing'
           /\ ws' = None
           /\ Len(calls') = 1
           /\ calls'[1].hook = "on_match_end"
           /\ calls'[1].arg = last'.msg
           /\ wins' = wins + (IF Get(last'.msg, "result", "unknown") = "victory" THEN 1 ELSE 0)
           /\ losses' = losses + (IF Get(last'.msg, "result", "unknown") = "defeat" THEN 1 ELSE 0)
           /\ matches_played' = matches_played + 1 ]_vars

\* C6: an order_violations message received while Playing invokes
\* on_violation exactly once with the full list of violations and leaves the
\* session Playing: nothing is sent, the connection stays open, counters and
\* snapshot are unchanged.
C6_ViolationsAreAdvisory ==
    [][ RecvOfType({"order_violations"})
        => /\ pc' = "m_loop"
           /\ ws' = ws
           /\ Len(calls') = 1
           /\ calls'[1].hook = "on_violation"
           /\ calls'[1].arg = Get(last'.msg, "violations", <<>>)
           /\ sent' = <<>>
           /\ pending' = <<>>
           /\ UNCHANGED <<wins, losses, matches_played, game_state>> ]_vars

\* The message types of the match channel the protocol names.
RecognizedTypes == {"state_update", "state_response", "game_end",
                    "order_violations", "chat", "connected", "game_start"}

\* C7: a message whose type is none of the recognized ones leaves the
\* session Playing with its connection open; nothing is sent, no callback or
\* hook is invoked, counters, snapshot and match result are unchanged.
C7_UnknownTypeIgnored ==
    [][ RecvStep /\ last'.kind = "message"
           /\ Get(last'.msg, "type", "") \notin RecognizedTypes
        => /\ pc' = "m_loop"
           /\ ws' = ws
           /\ sent' = <<>>
           /\ pending' = <<>>
           /\ calls' = <<>>
           /\ UNCHANGED <<wins, losses, matches_played, game_state,
                          match_result, match_info>> ]_vars

\* C7 witness: an unrecognized message was received and the session is back
\* at the head of the game loop.
C7_Witness ==
    /\ pc = "m_loop"
    /\ last.kind = "message"
    /\ Get(last.msg, "type", "") \notin RecognizedTypes

\* The queue-join response says joined (200) or already queued (409).
JoinAccepted(resp) ==
    resp.kind = "response" /\ resp.status \in {StatusOK, StatusAlreadyQueued}

\* C8: a 409 response to the queue-join request has the same effect as a 200:
\* after either the controller goes on to open the queue session, nothing
\* else changed; after any other outcome it goes to the backoff and opens no
\* queue session in that cycle.
C8_AlreadyQueuedIsSuccess ==
    /\ [][ pc = "join" /\ pc' # "join"
           => /\ lastJoin' # None
              /\ IF JoinAccepted(lastJoin')
                 THEN pc' = "q_connect" /\ lastOp' = "q_connect"
                 ELSE pc' = "backoff" /\ lastOp' = "join"
              /\ UNCHANGED <<agent, conns, match_data, running>> ]_vars
    /\ [](lastJoin # None /\ ~JoinAccepted(lastJoin) =>
            /\ pc \in {"backoff", "loop", "stopped"}
            /\ lastOp = "join"
            /\ qws = None /\ qresult = "none")

\* C8 witness: the join was answered 409 and the queue session is being
\* opened.
C8_Witness ==
    /\ lastJoin = [kind |-> "response", status |-> StatusAlreadyQueued]
    /\ pc = "q_identify"
    /\ qws = Open

\* C9: _register is called at most once in a run, never while credentials
\* are held (so never when they were supplied at start), and credentials,
\* once held, are never changed.
C9_RegisterOnceCredentialsFixed ==
    /\ [](registrations <= 1)
    /\ [][ Truthy(credentials)
           => registrations' = registrations /\ credentials' = credentials ]_vars

\* C9 witness: registered once, a match played, and a later cycle failed and
\* is being retried.
C9_Witness ==
    /\ registrations = 1
    /\ Truthy(credentials)
    /\ matches_played > 0
    /\ pc = "backoff"

\* C10: after a failed registration the run has ended with the error: no
\* credentials, no backoff or retry, and registration stays the last
\* protocol operation (no onboarding, queue-join, queue or match session).
C10_RegistrationFailureFatal ==
    regFailed =>
        /\ pc = "crashed"
        /\ credentials = None
        /\ lastOp = "register"
        /\ qws = None /\ ws = None
        /\ matches_played = 0 /\ match_info = None

\* C10 witness: a registration has failed.
C10_Witness == regFailed /\ pc = "crashed" /\ registrations = 1

\* The errors that can occur in a queue/match cycle, by where they are raised:
\* in _join_queue, in _wait_for_match, on the match channel, in the
\* on_match_start hook, in _handle_match_message (callback or hook).
CycleErrors == {"join", "queue", "match", "on_match_start", "handler"}

\* C11 (as stated): every error of a cycle (failed queue-join, queue session
\* error, match session error, hook error) is caught at the lifecycle loop and
\* followed by the longer backoff, sleep(5); while the running flag is set none
\* makes the controller reach Stopped or leaves the lifecycle loop.
C11_CycleErrorsBackOff ==
    /\ raised \in CycleErrors => pc = "backoff"
    /\ raised \in CycleErrors /\ running => pc \notin {"stopped", "crashed"}

\* C11 (amended): an error of _join_queue or of the on_match_start hook is
\* caught at the lifecycle loop and followed by the longer backoff; an error of
\* the queue session is caught inside _wait_for_match (connection closed, short
\* delay); an error on the match channel, or an exception of the callback or a
\* hook inside the game loop other than a timeout error, is caught inside
\* _play_match, which closes the connection and returns as after a finished
\* match (cooldown, or Stopped in single-match mode); a timeout error raised
\* by the callback or a hook is taken for a receive timeout.  No such error
\* leaves the lifecycle loop, and the controller reaches Stopped on one only
\* in single-match mode, after the match session the error ended.
C11_CycleErrorsContained ==
    /\ raised \in {"join", "on_match_start"} => pc = "backoff"
    /\ raised = "queue" => pc = "q_errsleep" /\ qws = None
    /\ raised = "match" => pc = AfterMatch(auto_queue) /\ ws = None
    /\ raised = "handler" =>
         IF last.exc = "TimeoutError"
         THEN pc = "m_probe" /\ ws = Open
         ELSE pc = AfterMatch(auto_queue) /\ ws = None
    /\ raised \in CycleErrors => pc # "crashed"
    /\ raised \in CycleErrors /\ pc = "stopped" =>
         ~auto_queue /\ raised \in {"match", "handler"}

\* A queue-join request failed while the running flag is set: the controller is
\* in the longer backoff.
C11_Witness == raised = "join" /\ pc = "backoff" /\ running

\* C12: a closed connection or transport error while Playing (the receive, the
\* send of the orders or the send of the get_state probe fails) ends the match
\* session (connection closed, game loop left) without a game_end being
\* recorded and without changing the win/loss counters; and in repeat mode the
\* controller then issues the next queue-join, unless the running flag is
\* cleared first.
C12_TransportErrorEndsSession ==
    /\ [][Playing /\ raised' = "match" =>
            /\ ~Playing'
            /\ ws' = None
            /\ match_result' = match_result
            /\ wins' = wins
            /\ losses' = losses
            /\ auto_queue /\ running => pc' = "cooldown"]_vars
    /\ (raised = "match" /\ auto_queue /\ running) ~> (pc = "join" \/ ~running)

\* The receive failed while Playing, in repeat mode with the running flag set:
\* the session has ended and the controller is in the cooldown.
C12_Witness ==
    /\ raised = "match"
    /\ last.kind = "error"
    /\ auto_queue
    /\ running
    /\ pc = "cooldown"

\* C13: once the running flag is cleared, a controller that holds credentials
\* (it waits in a queue session, plays in a match session, sleeps in a cooldown
\* or backoff, or is anywhere else in its cycle) eventually reaches Stopped,
\* every await of the coroutine completing.
C13_StopReachesStopped == (~running /\ credentials # None) ~> (pc = "stopped")

\* In repeat mode the controller has stopped after the flag was cleared in a
\* cycle in which a message had been received in the match session.
C13_Witness ==
    /\ pc = "stopped"
    /\ ~running
    /\ auto_queue
    /\ last.kind = "message"

\* C14: the queue connection and the match connection are never open at the
\* same time, and the match connection is opened only after the queue session
\* that announced the match (it ended on match_found) has closed its own.
C14_OneConnectionAtATime ==
    /\ [](~(qws = Open /\ ws = Open))
    /\ [][ws' = Open /\ ws # Open => qws = None /\ qresult = "match_found"]_vars

\* The match connection is open, after a queue session that announced the
\* match.
C14_Witness == ws = Open /\ qws = None /\ qresult = "match_found"

\* C15: in single-match operation (auto_queue false) the controller is Stopped
\* as soon as a match session has ended (_play_match returned), and stays so:
\* no operation, hence no queue-join, and no second match session follows.  In
\* repeat mode the controller never stops while the running flag is set, and
\* after every match session it issues the next queue-join unless the flag is
\* cleared first.
C15_SingleMatchStopsRepeatModeRepeats ==
    /\ [](~auto_queue /\ matches_played >= 1 =>
            pc = "stopped" /\ matches_played = 1 /\ ws = None /\ qws = None)
    /\ [][pc = "stopped" =>
            pc' = "stopped" /\ lastOp' = lastOp /\ UNCHANGED <<agent, conns>>]_vars
    /\ [](auto_queue /\ running => pc # "stopped")
    /\ [][auto_queue /\ matches_played' = matches_played + 1 => pc' = "cooldown"]_vars
    /\ (auto_queue /\ pc = "cooldown") ~> (pc = "join" \/ ~running)

\* Single-match operation: the one match session has ended and the controller
\* has stopped although the running flag is still set.
C15_Witness ==
    /\ ~auto_queue
    /\ running
    /\ matches_played = 1
    /\ pc = "stopped"

\* The types of the state messages.
StateTypes == {"state_update", "state_response"}

\* The strategy callback is among the callbacks and hooks cs.
CallbackIn(cs) == \E i \in DOMAIN cs : cs[i].hook = "on_game_state"

InMatchSession == pc \in {"m_connect", "m_identify"} \/ Playing

\* C17: after a match session has ended (by game_end, connection closure or
\* shutdown: _play_match returned) and until the next one starts, the
\* controller holds no match descriptor and no state snapshot.
C17_MatchStateDiscarded ==
    matches_played >= 1 /\ ~InMatchSession =>
        match_info = None /\ game_state = None

\* msg is the identify message of this agent.
IsIdentify(msg) ==
    /\ msg.type = "identify"
    /\ msg.agent_id = credentials.agent_id

\* C18: on the queue channel the client sends the identify message carrying
\* agent_id before it receives, and nothing else, ever; on the match channel
\* the first message sent after opening the connection is that identify
\* message, it is sent once per session, and the game loop (every receive,
\* and with it every 'orders' and 'get_state' message) comes after it.
C18_IdentifyFirstAndOnce ==
    /\ Len(wire.queue) <= 1
    /\ \A i \in DOMAIN wire.queue : IsIdentify(wire.queue[i])
    /\ pc = "q_identify" => wire.queue = <<>>
    /\ pc \in {"q_loop", "q_recv"} => Len(wire.queue) = 1
    /\ wire.first # None => IsIdentify(wire.first)
    /\ wire.idents <= 1
    /\ pc = "m_identify" => wire.first = None /\ wire.idents = 0
    /\ Playing => wire.first # None /\ wire.idents = 1

\* In one cycle the identify message went out on the queue channel and then
\* on the match channel, and an 'orders' message has been sent after it.
C18_Witness ==
    /\ Playing
    /\ Len(wire.queue) = 1
    /\ wire.idents = 1
    /\ CountType(sent, "orders") = 1

\* C19: the stop signal only clears the running flag (it interrupts nothing,
\* and the flag is never set again); a receive is attempted, on the queue
\* channel and on the match channel, only when the flag was found set at the
\* head of the session loop, so after the flag is cleared the session finishes
\* the receive in flight (handling the message, or sending the get_state
\* probe after a timeout), and at the head of its loop closes its connection
\* and leaves without another receive.
C19_NoReceiveAfterStop ==
    /\ [][running # running' =>
            running /\ UNCHANGED <<pc, agent, conns, pending, matchHist, wire>>]_vars
    /\ [][pc' = "q_recv" /\ pc # "q_recv" => running /\ pc = "q_loop"]_vars
    /\ [][pc' = "m_recv" /\ pc # "m_recv" => running /\ pc = "m_loop"]_vars
    /\ [][~running /\ pc = "q_loop" => pc' = "loop" /\ qws' = None]_vars
    /\ [][~running /\ pc = "m_loop" => ~Playing' /\ ws' = None]_vars
    /\ [][~running /\ pc \in {"q_recv", "m_recv", "m_send", "m_probe"} =>
            pc' \in {"q_loop", "m_loop", "m_send", "m_probe"}
            \/ (qws' = None /\ ws' = None)]_vars

\* The flag was cleared while a received state message is being handled: the
\* send of the orders the callback returned is still to be completed.
C19_Witness ==
    /\ ~running
    /\ pc = "m_send"
    /\ last.kind = "message"
    /\ last.ret # <<>>

\* C20: once the running flag is cleared it stays cleared, and a queue-join
\* request is issued only when the flag was found set at the head of the
\* lifecycle loop: none is issued after the stop signal, wherever it arrived
\* (queue wait, match, cooldown, backoff).
C20_NoJoinAfterStop ==
    /\ [][~running => ~running']_vars
    /\ [][pc' = "join" /\ pc # "join" => running /\ pc = "loop"]_vars
    /\ [][lastOp' = "join" /\ lastOp # "join" => running /\ pc' = "join"]_vars
    /\ [](pc = "join" => lastOp = "join")
    /\ [][~running /\ pc = "loop" => pc' = "stopped"]_vars

\* In repeat mode the controller has stopped after the flag was cleared in a
\* cycle whose queue-join request had failed (during the request or the
\* backoff that followed it).
C20_Witness ==
    /\ ~running
    /\ pc = "stopped"
    /\ auto_queue
    /\ lastJoin # None
    /\ ~JoinAccepted(lastJoin)

\* C21: the counters stay consistent: a match session counts at most one
\* game_end, so the victories and defeats counted never exceed the match
\* sessions that have returned, plus one while a match session is in progress;
\* in particular wins + losses <= matches_played at every cycle boundary.
C21_CountersConsistent ==
    wins + losses <= matches_played + (IF InMatchSession THEN 1 ELSE 0)

\* d is a pairing payload with at least one key.
NonEmptyPayload(d) == d # None /\ d # EmptyDict

\* The match-start hook is among the callbacks and hooks cs.
MatchStartIn(cs) == \E i \in DOMAIN cs : cs[i].hook = "on_match_start"

\* C22: when the queue session ends on a match_found event whose data is
\* missing or empty, it returns the empty payload and the controller is back
\* at the head of its loop with nothing changed (no hook invoked,
\* matches_played as before, no connection open), from where the only
\* operation that can follow is the queue-join; _play_match is entered, the
\* match-start hook invoked and a match session opened only after a
\* match_found event with a non-empty payload.
C22_EmptyMatchFoundIsNoMatch ==
    /\ [][pc = "q_recv" /\ qresult' = "match_found" =>
            /\ qws' = None
            /\ IF NonEmptyPayload(match_data')
               THEN pc' = "m_start"
               ELSE /\ pc' = "loop"
                    /\ match_data' = EmptyDict
                    /\ calls' = <<>>
                    /\ UNCHANGED <<agent, ws>>]_vars
    /\ [][pc = "loop" /\ qresult = "match_found" /\ pc' # "loop" =>
            /\ pc' = IF running THEN "join" ELSE "stopped"
            /\ running => lastOp' = "join"
            /\ UNCHANGED <<agent, conns>>]_vars
    /\ [][pc' = "m_start" /\ pc # "m_start" =>
            qresult' = "match_found" /\ NonEmptyPayload(match_data')]_vars
    /\ [](MatchStartIn(calls) \/ InMatchSession =>
            qresult = "match_found" /\ NonEmptyPayload(match_data))

\* The queue session ended on a match_found event without a payload: the
\* controller is at the head of its loop, no hook was invoked.
C22_Witness ==
    /\ pc = "loop"
    /\ qresult = "match_found"
    /\ match_data = EmptyDict
    /\ calls = <<>>
    /\ running

====
